---------------------------- MODULE Spec2Model ----------------------------
(***************************************************************************)
(* A model of scripts/consolidate.js (class PromptConsolidator and main).  *)
(*                                                                         *)
(* Text is a sequence of symbols.  A symbol is a one-character string,     *)
(* except that each fixed literal the script pushes and never inspects     *)
(* (the title, the fixed headings, the footer sentences) is carried as one *)
(* symbol holding the whole literal.  Everything the script looks into     *)
(* (file contents, file names, "---", "", the ".md" suffix) is spelled out *)
(* character by character.                                                 *)
(*                                                                         *)
(* Spec       one invocation of the script on a file system, one step per  *)
(*            file system call.                                            *)
(* SpecRerun  up to MaxRuns invocations in a row.                          *)
(* SpecParse  readMarkdownFile's parsing applied to bounded input texts.   *)
(* SpecSection  one invocation on a prompt directory of one file, whose   *)
(*            name and text range over bounded sets.                       *)
(* SpecTitle  formatTitle applied to bounded titles.                       *)
(* SpecOrder  one invocation on a prompt directory whose entries are a     *)
(*            subset of four names.                                        *)
(* SpecPrior  invocations between which the output file is replaced.       *)
(* SpecRender the two passes of createConsolidatedContent on one prompt.   *)
(* SpecShared one invocation while another process changes the prompt      *)
(*            directory.                                                   *)
(* SpecLive   Spec under weak fairness of the script's step.               *)
(***************************************************************************)
EXTENDS Integers, Sequences, FiniteSets, TLC

(***************************************************************************)
(* Bounds of the model.                                                    *)
(***************************************************************************)
\* how many entries the prompt directory holds at most
MaxEntries == 3
\* how many times in a row the script is invoked
MaxRuns == 2
\* the calendar days the clock can show are 0..MaxDate
MaxDate == 1
\* how many files of the initial file system cannot be read, at most
MaxUnreadable == 1
\* how many symbols a failed write leaves in the output file, at most
MaxPartial == 0
\* how many lines a free-form input text of SpecParse has at most
MaxLines == 4

(***************************************************************************)
(* JavaScript string operations, on sequences of symbols.                  *)
(***************************************************************************)
RECURSIVE SplitFrom(_, _, _, _)
SplitFrom(s, sep, i, cur) ==
    IF i > Len(s) THEN <<cur>>
    ELSE IF s[i] = sep THEN <<cur>> \o SplitFrom(s, sep, i + 1, <<>>)
    ELSE SplitFrom(s, sep, i + 1, Append(cur, s[i]))

\* String.prototype.split(sep) for a one-character separator
Split(s, sep) == SplitFrom(s, sep, 1, <<>>)

RECURSIVE Join(_, _)
\* Array.prototype.join(sep)
Join(parts, sep) ==
    IF Len(parts) = 0 THEN <<>>
    ELSE IF Len(parts) = 1 THEN parts[1]
    ELSE parts[1] \o sep \o Join(Tail(parts), sep)

\* Array.prototype.slice(from)
Slice(a, from) == SubSeq(a, from + 1, Len(a))

\* the white space String.prototype.trim removes, among the symbols used
IsSpace(c) == c \in {" ", "\n", "\r", "\t"}

RECURSIVE TrimStart(_)
TrimStart(s) ==
    IF Len(s) > 0 /\ IsSpace(s[1]) THEN TrimStart(Tail(s)) ELSE s

RECURSIVE TrimEnd(_)
TrimEnd(s) ==
    IF Len(s) > 0 /\ IsSpace(s[Len(s)]) THEN TrimEnd(SubSeq(s, 1, Len(s) - 1)) ELSE s

\* String.prototype.trim
Trim(s) == TrimEnd(TrimStart(s))

\* String.prototype.endsWith
EndsWith(s, suffix) ==
    /\ Len(suffix) <= Len(s)
    /\ SubSeq(s, Len(s) - Len(suffix) + 1, Len(s)) = suffix

\* Array.prototype.includes
Includes(a, x) == \E i \in 1..Len(a) : a[i] = x

(***************************************************************************)
(* The UTF-16 code unit of a character, for the characters file names and  *)
(* paths are made of: the order Array.prototype.sort compares strings by.  *)
(***************************************************************************)
CodeTable ==
    <<" ", "-", ".", "/", ":",
      "A", "B", "C", "D", "E", "F", "G", "H", "I", "J", "K", "L", "M",
      "N", "O", "P", "Q", "R", "S", "T", "U", "V", "W", "X", "Y", "Z", "_",
      "a", "b", "c", "d", "e", "f", "g", "h", "i", "j", "k", "l", "m",
      "n", "o", "p", "q", "r", "s", "t", "u", "v", "w", "x", "y", "z">>

CodeUnit(c) == CHOOSE i \in 1..Len(CodeTable) : CodeTable[i] = c

RECURSIVE StrLess(_, _)
\* a < b for strings: the first differing code unit decides, a proper prefix is smaller
StrLess(a, b) ==
    IF Len(b) = 0 THEN FALSE
    ELSE IF Len(a) = 0 THEN TRUE
    ELSE IF a[1] = b[1] THEN StrLess(Tail(a), Tail(b))
    ELSE CodeUnit(a[1]) < CodeUnit(b[1])

RECURSIVE SortInsert(_, _)
SortInsert(sorted, x) ==
    IF Len(sorted) = 0 THEN <<x>>
    ELSE IF StrLess(x, sorted[1]) THEN <<x>> \o sorted
    ELSE <<sorted[1]>> \o SortInsert(Tail(sorted), x)

RECURSIVE SortSet(_)
\* Array.prototype.sort() with the default comparison, of an array holding the
\* strings of S once each in any order
SortSet(S) ==
    IF S = {} THEN <<>>
    ELSE LET x == CHOOSE y \in S : TRUE
         IN SortInsert(SortSet(S \ {x}), x)

(***************************************************************************)
(* readMarkdownFile, the parsing of a text that was read (lines 23-44).    *)
(***************************************************************************)
Delimiter == <<"-", "-", "-">>

\* "__proto__"
ProtoKey == <<"_", "_", "p", "r", "o", "t", "o", "_", "_">>

\* SetField keeping the value a key already has
SetFieldKeepFirst(frontmatter, key, value) ==
    IF key = ProtoKey \/ key \in DOMAIN frontmatter THEN frontmatter
    ELSE [k \in DOMAIN frontmatter \cup {key} |-> IF k = key THEN value ELSE frontmatter[k]]

\* frontmatter[key] = value on a JavaScript object made by {}: the key
\* "__proto__" is the prototype's setter, which ignores a string
SetField(frontmatter, key, value) ==
    IF key = ProtoKey THEN frontmatter
    ELSE [k \in DOMAIN frontmatter \cup {key} |-> IF k = key THEN value ELSE frontmatter[k]]

\* frontmatter.key || '' : the value, or '' when the property is missing
Field(frontmatter, key) ==
    IF key \in DOMAIN frontmatter THEN frontmatter[key] ELSE <<>>

\* IsDelimiter with the line trimmed before it is compared
IsDelimiterTrimmed(line) == Trim(line) = Delimiter

\* lines 28 and 31: line === '---'
IsDelimiter(line) == line = Delimiter

\* HeaderLine keeping only the text between the first two colons
HeaderLineSecondPart(frontmatter, line) ==
    LET parts      == Split(line, ":")
        key        == parts[1]
        valueParts == Tail(parts)
    IN IF key # <<>> /\ Len(valueParts) > 0
       THEN SetField(frontmatter, Trim(key), Trim(valueParts[1]))
       ELSE frontmatter

\* HeaderLine keeping only the text after the last colon
HeaderLineLastPart(frontmatter, line) ==
    LET parts      == Split(line, ":")
        key        == parts[1]
        valueParts == Tail(parts)
    IN IF key # <<>> /\ Len(valueParts) > 0
       THEN SetField(frontmatter, Trim(key), Trim(valueParts[Len(valueParts)]))
       ELSE frontmatter

\* HeaderLine without the test of the key
HeaderLineAnyKey(frontmatter, line) ==
    LET parts      == Split(line, ":")
        key        == parts[1]
        valueParts == Tail(parts)
    IN IF Len(valueParts) > 0
       THEN SetField(frontmatter, Trim(key), Trim(Join(valueParts, <<":">>)))
       ELSE frontmatter

\* lines 35-38: one line of the header block
HeaderLine(frontmatter, line) ==
    LET parts      == Split(line, ":")
        key        == parts[1]
        valueParts == Tail(parts)
    IN IF key # <<>> /\ Len(valueParts) > 0
       THEN SetField(frontmatter, Trim(key), Trim(Join(valueParts, <<":">>)))
       ELSE frontmatter

RECURSIVE ScanHeaderToLast(_, _, _)
\* ScanHeader going on to the last "---" line of the text
ScanHeaderToLast(lines, i, frontmatter) ==
    IF i >= Len(lines) THEN [frontmatter |-> frontmatter, endIndex |-> -1]
    ELSE IF IsDelimiter(lines[i + 1])
            /\ \A j \in (i + 2)..Len(lines) : ~IsDelimiter(lines[j])
    THEN [frontmatter |-> frontmatter, endIndex |-> i]
    ELSE ScanHeaderToLast(lines, i + 1,
                          IF IsDelimiter(lines[i + 1]) THEN frontmatter
                          ELSE HeaderLine(frontmatter, lines[i + 1]))

RECURSIVE ScanHeader(_, _, _)
\* lines 29-39: the loop from the 0-based index i; endIndex stays -1 when no
\* closing delimiter is met
ScanHeader(lines, i, frontmatter) ==
    IF i >= Len(lines) THEN [frontmatter |-> frontmatter, endIndex |-> -1]
    ELSE IF IsDelimiter(lines[i + 1]) THEN [frontmatter |-> frontmatter, endIndex |-> i]
    ELSE ScanHeader(lines, i + 1, HeaderLine(frontmatter, lines[i + 1]))

\* lines 23-44: what readMarkdownFile returns for a file whose text is content
ParseMarkdown(content) ==
    LET lines  == Split(content, "\n")
        header == IF IsDelimiter(lines[1])
                  THEN ScanHeader(lines, 1, <<>>)
                  ELSE [frontmatter |-> <<>>, endIndex |-> -1]
        bodyStartIndex == IF IsDelimiter(lines[1]) THEN header.endIndex + 1 ELSE 0
    IN [ok          |-> TRUE,
        frontmatter |-> header.frontmatter,
        body        |-> Trim(Join(Slice(lines, bodyStartIndex), <<"\n">>)),
        fullContent |-> content]

\* line 47: the null a failed read returns
Null == [ok |-> FALSE, frontmatter |-> <<>>, body |-> <<>>, fullContent |-> <<>>]

\* String.prototype.replace(pattern, '') for a string pattern: the first
\* occurrence only
RECURSIVE RemoveFirst(_, _)
RemoveFirst(s, pattern) ==
    IF Len(s) < Len(pattern) THEN s
    ELSE IF SubSeq(s, 1, Len(pattern)) = pattern THEN SubSeq(s, Len(pattern) + 1, Len(s))
    ELSE <<s[1]>> \o RemoveFirst(Tail(s), pattern)

(***************************************************************************)
(* Paths (Node's path module, POSIX flavour).                              *)
(***************************************************************************)
\* path.join(dir, name)
PathJoin(dir, name) == dir \o <<"/">> \o name

\* path.join(dir, '..'): the directory above dir
Parent(path) ==
    LET segments == Split(path, "/")
    IN Join(SubSeq(segments, 1, Len(segments) - 1), <<"/">>)

\* path.basename(path)
Basename(path) ==
    LET segments == Split(path, "/")
    IN segments[Len(segments)]

\* path.basename(path, ext)
BasenameExt(path, ext) ==
    IF path = ext THEN <<>>
    ELSE IF EndsWith(Basename(path), ext) /\ Basename(path) # ext
    THEN SubSeq(Basename(path), 1, Len(Basename(path)) - Len(ext))
    ELSE Basename(path)

\* "/repo/scripts"
Dirname ==
    <<"/", "r", "e", "p", "o", "/", "s", "c", "r", "i", "p", "t", "s">>

\* ".md"
Md ==
    <<".", "m", "d">>

\* "prompts"
PromptsName ==
    <<"p", "r", "o", "m", "p", "t", "s">>

\* "CONSOLIDATED_PROMPTS.md"
OutputName ==
    <<"C", "O", "N", "S", "O", "L", "I", "D", "A", "T", "E", "D", "_", "P",
      "R", "O", "M", "P", "T", "S", ".", "m", "d">>

\* "instructions.md"
InstructionsName ==
    <<"i", "n", "s", "t", "r", "u", "c", "t", "i", "o", "n", "s", ".", "m",
      "d">>

\* the output file placed in the prompt directory
outputFileInPrompts == PathJoin(PathJoin(Parent(Dirname), PromptsName), OutputName)

\* lines 11-15: the constructor's three paths
promptsDir == PathJoin(Parent(Dirname), PromptsName)

outputFile == PathJoin(Parent(Dirname), OutputName)

instructionsFile == PathJoin(Parent(Dirname), InstructionsName)

(***************************************************************************)
(* The file names of the model's prompt directory.                         *)
(***************************************************************************)
\* "clean-code-typescript.md"
CleanCodeTypescriptMd ==
    <<"c", "l", "e", "a", "n", "-", "c", "o", "d", "e", "-", "t", "y", "p",
      "e", "s", "c", "r", "i", "p", "t", ".", "m", "d">>

\* "clean-architecture.md"
CleanArchitectureMd ==
    <<"c", "l", "e", "a", "n", "-", "a", "r", "c", "h", "i", "t", "e", "c",
      "t", "u", "r", "e", ".", "m", "d">>

\* "typescript-wizard.md"
TypescriptWizardMd ==
    <<"t", "y", "p", "e", "s", "c", "r", "i", "p", "t", "-", "w", "i", "z",
      "a", "r", "d", ".", "m", "d">>

\* "feature-development.md"
FeatureDevelopmentMd ==
    <<"f", "e", "a", "t", "u", "r", "e", "-", "d", "e", "v", "e", "l", "o",
      "p", "m", "e", "n", "t", ".", "m", "d">>

\* "frontend-react-shadcn.md"
FrontendReactShadcnMd ==
    <<"f", "r", "o", "n", "t", "e", "n", "d", "-", "r", "e", "a", "c", "t",
      "-", "s", "h", "a", "d", "c", "n", ".", "m", "d">>

\* "nextjs-app-router.md"
NextjsAppRouterMd ==
    <<"n", "e", "x", "t", "j", "s", "-", "a", "p", "p", "-", "r", "o", "u",
      "t", "e", "r", ".", "m", "d">>

\* "frontend-design.md"
FrontendDesignMd ==
    <<"f", "r", "o", "n", "t", "e", "n", "d", "-", "d", "e", "s", "i", "g",
      "n", ".", "m", "d">>

\* "a.md"
AMd ==
    <<"a", ".", "m", "d">>

\* "b.md"
BMd ==
    <<"b", ".", "m", "d">>

\* "a.mdx"
AMdx ==
    <<"a", ".", "m", "d", "x">>

\* "A.MD"
AUpperMd ==
    <<"A", ".", "M", "D">>

\* the longer list: frontend-design.md and nextjs-app-router.md appended
promptOrderLonger ==
    <<CleanCodeTypescriptMd, CleanArchitectureMd, TypescriptWizardMd,
      FeatureDevelopmentMd, FrontendReactShadcnMd, FrontendDesignMd, NextjsAppRouterMd>>

\* promptOrder with nextjs-app-router.md appended
promptOrderWithNextjs ==
    <<CleanCodeTypescriptMd, CleanArchitectureMd, TypescriptWizardMd,
      FeatureDevelopmentMd, FrontendReactShadcnMd, NextjsAppRouterMd>>

\* lines 92-98
promptOrder ==
    <<CleanCodeTypescriptMd, CleanArchitectureMd, TypescriptWizardMd,
      FeatureDevelopmentMd, FrontendReactShadcnMd>>

\* the names an entry of the prompt directory can have in the model
EntryNames ==
    {CleanCodeTypescriptMd, CleanArchitectureMd, NextjsAppRouterMd, AMd, BMd, AMdx, AUpperMd}

(***************************************************************************)
(* The texts of the model's files.                                         *)
(***************************************************************************)
\* "---\nname: clean-code-typescript\ndescription: strict\n---\n\nC1\n"
CleanCodeTypescriptText ==
    <<"-", "-", "-", "\n", "n", "a", "m", "e", ":", " ", "c", "l", "e",
      "a", "n", "-", "c", "o", "d", "e", "-", "t", "y", "p", "e", "s", "c",
      "r", "i", "p", "t", "\n", "d", "e", "s", "c", "r", "i", "p", "t",
      "i", "o", "n", ":", " ", "s", "t", "r", "i", "c", "t", "\n", "-",
      "-", "-", "\n", "\n", "C", "1", "\n">>

\* "---\nname: clean-architecture\n---\nC2\n---\nx\n"
CleanArchitectureText ==
    <<"-", "-", "-", "\n", "n", "a", "m", "e", ":", " ", "c", "l", "e",
      "a", "n", "-", "a", "r", "c", "h", "i", "t", "e", "c", "t", "u", "r",
      "e", "\n", "-", "-", "-", "\n", "C", "2", "\n", "-", "-", "-", "\n",
      "x", "\n">>

\* "---\nname: nextjs\ndescription: a: b\n---\nN\n"
NextjsAppRouterText ==
    <<"-", "-", "-", "\n", "n", "a", "m", "e", ":", " ", "n", "e", "x",
      "t", "j", "s", "\n", "d", "e", "s", "c", "r", "i", "p", "t", "i",
      "o", "n", ":", " ", "a", ":", " ", "b", "\n", "-", "-", "-", "\n",
      "N", "\n">>

\* "# A\na a\n"
AText ==
    <<"#", " ", "A", "\n", "a", " ", "a", "\n">>

\* "---\nname:\ndescription: bee\n---\nb"
BText ==
    <<"-", "-", "-", "\n", "n", "a", "m", "e", ":", "\n", "d", "e", "s",
      "c", "r", "i", "p", "t", "i", "o", "n", ":", " ", "b", "e", "e",
      "\n", "-", "-", "-", "\n", "b">>

\* "mdx"
AMdxText ==
    <<"m", "d", "x">>

\* "upper"
AUpperMdText ==
    <<"u", "p", "p", "e", "r">>

\* "---\nname: instructions\ndescription: protocol\n---\n\n# P\nrules\n"
InstructionsText ==
    <<"-", "-", "-", "\n", "n", "a", "m", "e", ":", " ", "i", "n", "s",
      "t", "r", "u", "c", "t", "i", "o", "n", "s", "\n", "d", "e", "s",
      "c", "r", "i", "p", "t", "i", "o", "n", ":", " ", "p", "r", "o", "t",
      "o", "c", "o", "l", "\n", "-", "-", "-", "\n", "\n", "#", " ", "P",
      "\n", "r", "u", "l", "e", "s", "\n">>

\* "plain\n"
InstructionsPlainText ==
    <<"p", "l", "a", "i", "n", "\n">>

\* the text the model's file system holds under a name of the prompt directory
TextOf(name) ==
    CASE name = CleanCodeTypescriptMd -> CleanCodeTypescriptText
      [] name = CleanArchitectureMd -> CleanArchitectureText
      [] name = NextjsAppRouterMd -> NextjsAppRouterText
      [] name = AMd -> AText
      [] name = BMd -> BText
      [] name = AMdx -> AMdxText
      [] OTHER -> AUpperMdText

\* the texts the instructions file can hold in the model
InstructionsTexts == {InstructionsText, InstructionsPlainText}

\* what the output file holds before the first run, when it exists
StaleOutput == <<"s", "t", "a", "l", "e">>

(***************************************************************************)
(* formatTitle (lines 168-173).                                            *)
(***************************************************************************)
LowerCase ==
    <<"a", "b", "c", "d", "e", "f", "g", "h", "i", "j", "k", "l", "m",
      "n", "o", "p", "q", "r", "s", "t", "u", "v", "w", "x", "y", "z">>

UpperCase ==
    <<"A", "B", "C", "D", "E", "F", "G", "H", "I", "J", "K", "L", "M",
      "N", "O", "P", "Q", "R", "S", "T", "U", "V", "W", "X", "Y", "Z">>

\* String.prototype.toUpperCase of one character
ToUpperCase(c) ==
    IF \E k \in 1..Len(LowerCase) : LowerCase[k] = c
    THEN UpperCase[CHOOSE k \in 1..Len(LowerCase) : LowerCase[k] = c]
    ELSE c

\* Capitalize putting every symbol of the word in upper case
CapitalizeWhole(word) == [k \in 1..Len(word) |-> ToUpperCase(word[k])]

\* the character U+00DF (sharp s), whose upper case is the two characters
\* "SS": toUpperCase maps by Unicode's full case mapping
SharpS == "U+00DF"

\* line 171: word.charAt(0).toUpperCase()
FirstToUpperCase(word) ==
    IF Len(word) = 0 THEN <<>>
    ELSE IF word[1] = SharpS THEN <<"S", "S">>
    ELSE <<ToUpperCase(word[1])>>

\* line 171: word.charAt(0).toUpperCase() + word.slice(1)
Capitalize(word) ==
    FirstToUpperCase(word) \o (IF Len(word) = 0 THEN <<>> ELSE Tail(word))

\* formatTitle joining the words with the hyphen it split them on
formatTitleKeepHyphen(title) ==
    LET words == Split(title, "-")
    IN Join([k \in 1..Len(words) |-> Capitalize(words[k])], <<"-">>)

\* lines 168-173
formatTitle(title) ==
    LET words == Split(title, "-")
    IN Join([k \in 1..Len(words) |-> Capitalize(words[k])], <<" ">>)

(***************************************************************************)
(* The lines createConsolidatedContent pushes (lines 69-163).  The fixed   *)
(* literals are single symbols, without their emoji and backquotes.        *)
(***************************************************************************)
TitleLine == <<"# Awesome Coding Prompts - Consolidated Guide">>

IntroLine ==
    <<"> A comprehensive collection of professional development standards and architectural guidance">>

CoreHeading == <<"## Core Instructions">>

PromptHeadingPrefix == <<"## ">>

\* lines 73-78
HeaderBlock == <<TitleLine, <<>>, IntroLine, <<>>, Delimiter, <<>>>>

\* lines 82-89
InstructionsBlock(instructions) ==
    IF instructions.ok
    THEN <<CoreHeading, <<>>, instructions.body, <<>>, Delimiter, <<>>>>
    ELSE <<>>

\* PromptBlock pushing the subtitle whether or not there is a description
PromptBlockAlwaysSubtitle(title, description, body) ==
    <<PromptHeadingPrefix \o formatTitle(title)>>
    \o <<<<>>, <<"*">> \o description \o <<"*">>>>
    \o <<<<>>, body, <<>>, Delimiter, <<>>>>

\* lines 111-120 and 134-143: the pushes of one prompt
PromptBlock(title, description, body) ==
    <<PromptHeadingPrefix \o formatTitle(title)>>
    \o (IF description # <<>> THEN <<<<>>, <<"*">> \o description \o <<"*">>>> ELSE <<>>)
    \o <<<<>>, body, <<>>, Delimiter, <<>>>>

NameKey == <<"n", "a", "m", "e">>

DescriptionKey == <<"d", "e", "s", "c", "r", "i", "p", "t", "i", "o", "n">>

\* lines 108-120: the priority pass's rendering of promptFile
PrioritySection(promptFile, prompt) ==
    LET title == IF Field(prompt.frontmatter, NameKey) # <<>>
                 THEN Field(prompt.frontmatter, NameKey)
                 ELSE BasenameExt(promptFile, Md)
        description == Field(prompt.frontmatter, DescriptionKey)
    IN PromptBlock(title, description, prompt.body)

\* lines 131-143: the remainder pass's rendering of fileName
RemainderSection(fileName, prompt) ==
    LET title == IF Field(prompt.frontmatter, NameKey) # <<>>
                 THEN Field(prompt.frontmatter, NameKey)
                 ELSE RemoveFirst(fileName, Md)
        description == Field(prompt.frontmatter, DescriptionKey)
    IN PromptBlock(title, description, prompt.body)

\* new Date().toISOString().split('T')[0] on calendar day d
DateString(d) == <<ToString(d)>>

\* lines 149-160
FooterBlock(d) ==
    <<<<"## Implementation Notes">>,
      <<>>,
      <<"This consolidated guide follows the architectural principles outlined in each individual prompt:">>,
      <<>>,
      <<"- **Clean Architecture**: Strict separation of concerns with dependency inversion">>,
      <<"- **TypeScript Excellence**: Zero 'any' types, strict typing, and type-driven development">>,
      <<"- **Professional Standards**: Production-ready code with comprehensive error handling">>,
      <<"- **Domain-Driven Design**: Business logic isolated from infrastructure concerns">>,
      <<>>,
      Delimiter,
      <<>>,
      <<"*Generated from individual prompt files. Last updated: ">> \o DateString(d) \o <<"*">>>>

(***************************************************************************)
(* State.                                                                  *)
(***************************************************************************)
VARIABLES
    files,          \* the file system's regular files: path -> text
    dirs,           \* the file system's directories
    unreadable,     \* the files whose read fails (permissions)
    today,          \* the calendar day the clock shows
    pc,             \* where the running script stands
    found,          \* run's promptFiles (line 209)
    promptFiles,    \* createConsolidatedContent's promptFiles (line 101)
    consolidated,   \* createConsolidatedContent's array of pushed strings
    idx,            \* the forEach loops' 0-based position
    success,        \* what run returned: "none" until it returns
    console,        \* the messages written with console.error, in order
    trace,          \* the file system calls of the current run, in order
    emitted,        \* the paths whose prompt block was pushed, in order
    atStart,        \* what the current run found when it started
    runs,           \* one record per finished run
    arg,            \* the input of the function applied on its own
    loaded          \* what the function returned for it

vars ==
    <<files, dirs, unreadable, today, pc, found, promptFiles, consolidated, idx,
      success, console, trace, emitted, atStart, runs, arg, loaded>>

fsVars == <<files, dirs, unreadable>>

parseVars == <<arg, loaded>>

(***************************************************************************)
(* The file system calls, on the current state.                            *)
(***************************************************************************)
existsSync(path) == path \in DOMAIN files \/ path \in dirs

\* whether fs.readdirSync(dir) returns (it throws for a missing path and for a file)
CanList(dir) == dir \in dirs

readdirSync(dir) == {Basename(p) : p \in {q \in DOMAIN files : Parent(q) = dir}}

\* whether fs.readFileSync(path) returns
CanRead(path) == path \in DOMAIN files /\ path \notin unreadable

\* readMarkdownFile returning an empty document, not null, when the read fails
readMarkdownFileEmpty(path) ==
    IF CanRead(path) THEN ParseMarkdown(files[path])
    ELSE [ok |-> TRUE, frontmatter |-> <<>>, body |-> <<>>, fullContent |-> <<>>]

\* lines 20-49
readMarkdownFile(path) ==
    IF CanRead(path) THEN ParseMarkdown(files[path]) ELSE Null

\* getPromptFiles returning the paths in descending order
getPromptFilesDescending ==
    IF CanList(promptsDir)
    THEN LET sorted == SortSet({PathJoin(promptsDir, file) :
                                  file \in {f \in readdirSync(promptsDir) : EndsWith(f, Md)}})
         IN [k \in 1..Len(sorted) |-> sorted[Len(sorted) + 1 - k]]
    ELSE <<>>

\* getPromptFiles without the filter on the names
getPromptFilesUnfiltered ==
    IF CanList(promptsDir)
    THEN SortSet({PathJoin(promptsDir, file) : file \in readdirSync(promptsDir)})
    ELSE <<>>

\* lines 54-64
getPromptFiles ==
    IF CanList(promptsDir)
    THEN SortSet({PathJoin(promptsDir, file) :
                    file \in {f \in readdirSync(promptsDir) : EndsWith(f, Md)}})
    ELSE <<>>

Call(op, path, ok) == [op |-> op, path |-> path, ok |-> ok]

Message(msg, path) == [msg |-> msg, path |-> path]

\* the console.error of a failed read (line 46), if the read of path fails
ReadError(path) ==
    IF CanRead(path) THEN <<>> ELSE <<Message("Error reading file", path)>>

\* the console.error of a failed listing (line 61), if the listing fails
ListError ==
    IF CanList(promptsDir) THEN <<>>
    ELSE <<Message("Error reading prompts directory", promptsDir)>>

(***************************************************************************)
(* The initial states: a file system the script has not yet run on.  The   *)
(* prompts path is missing, a regular file, or a directory of at most      *)
(* MaxEntries entries, of which at most MaxUnreadable cannot be read; the  *)
(* instructions file is missing, unreadable or readable; the output file   *)
(* is missing or left over from an earlier time.                           *)
(***************************************************************************)
InitialFiles(kind, entries, instructions, stale) ==
    LET paths == {PathJoin(promptsDir, name) : name \in entries}
                 \cup (IF kind = "file" THEN {promptsDir} ELSE {})
                 \cup (IF instructions # <<>> THEN {instructionsFile} ELSE {})
                 \cup (IF stale THEN {outputFile} ELSE {})
    IN [p \in paths |->
          IF p = instructionsFile THEN instructions
          ELSE IF p = outputFile THEN StaleOutput
          ELSE IF p = promptsDir THEN <<>>
          ELSE TextOf(Basename(p))]

\* what a run finds when it starts: whether the prompts path and the
\* instructions file exist, and the output file's text, if any
Found ==
    [promptsDir       |-> existsSync(promptsDir),
     instructionsFile |-> existsSync(instructionsFile),
     outputFile       |-> IF outputFile \in DOMAIN files THEN <<files[outputFile]>> ELSE <<>>]

NoArg == [kind |-> "none", X |-> <<>>, Y |-> <<>>, BODY |-> <<>>, lines |-> <<>>]

Idle ==
    /\ pc = "idle"
    /\ found = <<>>
    /\ promptFiles = <<>>
    /\ consolidated = <<>>
    /\ idx = 0
    /\ success = "none"
    /\ console = <<>>
    /\ trace = <<>>
    /\ emitted = <<>>
    /\ atStart = Found
    /\ runs = <<>>

Init ==
    /\ \E kind \in {"absent", "file", "dir"} :
       \E entries \in SUBSET EntryNames :
       \E instructions \in {<<>>} \cup InstructionsTexts :
       \E stale \in BOOLEAN :
          /\ Cardinality(entries) <= MaxEntries
          /\ kind # "dir" => entries = {}
          /\ files = InitialFiles(kind, entries, instructions, stale)
          /\ dirs = IF kind = "dir" THEN {promptsDir} ELSE {}
    /\ unreadable \in SUBSET (DOMAIN files \ {outputFile, promptsDir})
    /\ Cardinality(unreadable) <= MaxUnreadable
    /\ instructionsFile \in unreadable => files[instructionsFile] = InstructionsText
    /\ today = 0
    /\ Idle
    /\ arg = NoArg
    /\ loaded = Null

(***************************************************************************)
(* main and run (lines 196-228).                                           *)
(***************************************************************************)
\* lines 218-220: main constructs the consolidator and calls run
Begin ==
    /\ pc = "idle"
    /\ pc' = "checkDir"
    /\ found' = <<>>
    /\ promptFiles' = <<>>
    /\ consolidated' = <<>>
    /\ idx' = 0
    /\ success' = "none"
    /\ console' = <<>>
    /\ trace' = <<>>
    /\ emitted' = <<>>
    /\ atStart' = Found
    /\ UNCHANGED <<fsVars, today, runs, parseVars>>

\* the script is started
Start ==
    /\ runs = <<>>
    /\ Begin

\* the script is started again, after it has exited
Rerun ==
    /\ runs # <<>>
    /\ Len(runs) < MaxRuns
    /\ Begin

\* CheckPromptsDir without its return: the error is reported and run goes on
CheckPromptsDirNoReturn ==
    /\ pc = "checkDir"
    /\ trace' = Append(trace, Call("existsSync", promptsDir, existsSync(promptsDir)))
    /\ console' = IF existsSync(promptsDir) THEN console
                  ELSE Append(console, Message("Prompts directory not found", promptsDir))
    /\ pc' = "checkInstructions"
    /\ UNCHANGED <<fsVars, today, found, promptFiles, consolidated, idx, success, emitted,
                   atStart, runs, parseVars>>

\* lines 199-202
CheckPromptsDir ==
    /\ pc = "checkDir"
    /\ trace' = Append(trace, Call("existsSync", promptsDir, existsSync(promptsDir)))
    /\ IF existsSync(promptsDir)
       THEN /\ pc' = "checkInstructions"
            /\ UNCHANGED <<success, console>>
       ELSE /\ console' = Append(console, Message("Prompts directory not found", promptsDir))
            /\ success' = "false"
            /\ pc' = "exit"
    /\ UNCHANGED <<fsVars, today, found, promptFiles, consolidated, idx, emitted,
                   atStart, runs, parseVars>>

\* lines 204-207
CheckInstructions ==
    /\ pc = "checkInstructions"
    /\ trace' = Append(trace, Call("existsSync", instructionsFile, existsSync(instructionsFile)))
    /\ IF existsSync(instructionsFile)
       THEN /\ pc' = "countPrompts"
            /\ UNCHANGED <<success, console>>
       ELSE /\ console' = Append(console, Message("Instructions file not found", instructionsFile))
            /\ success' = "false"
            /\ pc' = "exit"
    /\ UNCHANGED <<fsVars, today, found, promptFiles, consolidated, idx, emitted,
                   atStart, runs, parseVars>>

\* lines 209-211
CountPrompts ==
    /\ pc = "countPrompts"
    /\ found' = getPromptFiles
    /\ trace' = Append(trace, Call("readdirSync", promptsDir, CanList(promptsDir)))
    /\ console' = console \o ListError
    /\ pc' = "readInstructions"
    /\ UNCHANGED <<fsVars, today, promptFiles, consolidated, idx, success, emitted,
                   atStart, runs, parseVars>>

(***************************************************************************)
(* writeConsolidatedFile and createConsolidatedContent (lines 69-191),     *)
(* one step per file system call.                                          *)
(***************************************************************************)
\* lines 70-89
ReadInstructions ==
    /\ pc = "readInstructions"
    /\ consolidated' = HeaderBlock \o InstructionsBlock(readMarkdownFile(instructionsFile))
    /\ trace' = Append(trace, Call("readFileSync", instructionsFile, CanRead(instructionsFile)))
    /\ console' = console \o ReadError(instructionsFile)
    /\ pc' = "listPrompts"
    /\ UNCHANGED <<fsVars, today, found, promptFiles, idx, success, emitted,
                   atStart, runs, parseVars>>

\* ListPrompts without getPromptFiles' catch: a failed listing is an error
\* nothing handles
ListPromptsUncaught ==
    /\ pc = "listPrompts"
    /\ promptFiles' = getPromptFiles
    /\ trace' = Append(trace, Call("readdirSync", promptsDir, CanList(promptsDir)))
    /\ console' = console
    /\ idx' = 0
    /\ pc' = IF CanList(promptsDir) THEN "priority" ELSE "uncaught"
    /\ UNCHANGED <<fsVars, today, found, consolidated, success, emitted,
                   atStart, runs, parseVars>>

\* line 101
ListPrompts ==
    /\ pc = "listPrompts"
    /\ promptFiles' = getPromptFiles
    /\ trace' = Append(trace, Call("readdirSync", promptsDir, CanList(promptsDir)))
    /\ console' = console \o ListError
    /\ idx' = 0
    /\ pc' = "priority"
    /\ UNCHANGED <<fsVars, today, found, consolidated, success, emitted,
                   atStart, runs, parseVars>>

\* how many entries of promptOrder, from the 0-based position i on, are not
\* in promptFiles and come before one that is: these iterations call nothing
RECURSIVE Skipped(_)
Skipped(i) ==
    IF i + 1 < Len(promptOrder)
       /\ ~Includes(promptFiles, PathJoin(promptsDir, promptOrder[i + 1]))
    THEN 1 + Skipped(i + 1)
    ELSE 0

\* lines 103-123: the iterations of promptOrder.forEach up to and including
\* the next one that reads a file, or the last one
PriorityStep ==
    /\ pc = "priority"
    /\ LET at         == idx + Skipped(idx)
           promptFile == promptOrder[at + 1]
           fullPath   == PathJoin(promptsDir, promptFile)
           prompt     == readMarkdownFile(fullPath)
       IN /\ IF Includes(promptFiles, fullPath)
             THEN /\ trace' = Append(trace, Call("readFileSync", fullPath, CanRead(fullPath)))
                  /\ console' = console \o ReadError(fullPath)
                  /\ IF prompt.ok
                     THEN /\ consolidated' = consolidated \o PrioritySection(promptFile, prompt)
                          /\ emitted' = Append(emitted, fullPath)
                     ELSE UNCHANGED <<consolidated, emitted>>
             ELSE UNCHANGED <<trace, console, consolidated, emitted>>
          /\ IF at + 1 < Len(promptOrder)
             THEN /\ idx' = at + 1
                  /\ pc' = "priority"
             ELSE /\ idx' = 0
                  /\ pc' = IF Len(promptFiles) > 0 THEN "remainder" ELSE "write"
    /\ UNCHANGED <<fsVars, today, found, promptFiles, success, atStart, runs, parseVars>>

\* InPromptOrder answering no for every name
InPromptOrderNever(fileName) == FALSE

\* line 128: promptOrder.includes(fileName)
InPromptOrder(fileName) == Includes(promptOrder, fileName)

\* lines 126-146: one iteration of promptFiles.forEach
RemainderStep ==
    /\ pc = "remainder"
    /\ LET filePath == promptFiles[idx + 1]
           fileName == Basename(filePath)
           prompt   == readMarkdownFile(filePath)
       IN IF ~InPromptOrder(fileName)
          THEN /\ trace' = Append(trace, Call("readFileSync", filePath, CanRead(filePath)))
               /\ console' = console \o ReadError(filePath)
               /\ IF prompt.ok
                  THEN /\ consolidated' = consolidated \o RemainderSection(fileName, prompt)
                       /\ emitted' = Append(emitted, filePath)
                  ELSE UNCHANGED <<consolidated, emitted>>
          ELSE UNCHANGED <<trace, console, consolidated, emitted>>
    /\ IF idx + 1 < Len(promptFiles)
       THEN /\ idx' = idx + 1
            /\ pc' = "remainder"
       ELSE /\ idx' = 0
            /\ pc' = "write"
    /\ UNCHANGED <<fsVars, today, found, promptFiles, success, atStart, runs, parseVars>>

\* WriteFile adding the content to what the file holds
WriteFileAppend(path, content) ==
    [p \in DOMAIN files \cup {path} |->
        IF p # path THEN files[p]
        ELSE IF path \in DOMAIN files THEN files[path] \o content
        ELSE content]

\* fs.writeFileSync(path, content) returning: the file holds content
WriteFile(path, content) ==
    [p \in DOMAIN files \cup {path} |-> IF p = path THEN content ELSE files[p]]

\* lines 148-162 and 181-190: the footer, the join and the write, which
\* returns or throws; a write that throws leaves the file as it was or
\* leaves a part of the content, of at most MaxPartial symbols
WriteConsolidatedFile ==
    /\ pc = "write"
    /\ consolidated' = consolidated \o FooterBlock(today)
    /\ LET content == Join(consolidated', <<"\n">>)
       IN \/ /\ files' = WriteFile(outputFile, content)
             /\ trace' = Append(trace, Call("writeFileSync", outputFile, TRUE))
             /\ success' = "true"
             /\ UNCHANGED console
          \/ /\ \/ UNCHANGED files
                \/ \E k \in 0..MaxPartial : files' = WriteFile(outputFile, SubSeq(content, 1, k))
             /\ trace' = Append(trace, Call("writeFileSync", outputFile, FALSE))
             /\ console' = Append(console, Message("Error writing consolidated file", outputFile))
             /\ success' = "false"
    /\ pc' = "exit"
    /\ UNCHANGED <<dirs, unreadable, today, found, promptFiles, idx, emitted,
                   atStart, runs, parseVars>>

\* lines 222-227: the exit code; the finished run is recorded, with the file
\* system it leaves
Exit ==
    /\ pc = "exit"
    /\ console' = IF success = "true" THEN console
                  ELSE Append(console, Message("Consolidation failed!", <<>>))
    /\ runs' = Append(runs, [exitCode |-> IF success = "true" THEN 0 ELSE 1,
                             date     |-> today,
                             output   |-> Found.outputFile])
    /\ pc' = "idle"
    /\ UNCHANGED <<fsVars, today, found, promptFiles, consolidated, idx, success,
                   trace, emitted, atStart, parseVars>>

\* midnight passes between two runs; the script reads the clock once per
\* run (line 160) and only the day's text reaches the output
Tick ==
    /\ pc = "idle"
    /\ runs # <<>>
    /\ today < MaxDate
    /\ today' = today + 1
    /\ UNCHANGED <<fsVars, pc, found, promptFiles, consolidated, idx, success,
                   console, trace, emitted, atStart, runs, parseVars>>

Next ==
    \/ Start
    \/ CheckPromptsDir
    \/ CheckInstructions
    \/ CountPrompts
    \/ ReadInstructions
    \/ ListPrompts
    \/ PriorityStep
    \/ RemainderStep
    \/ WriteConsolidatedFile
    \/ Exit

\* one invocation of the script, on any of the initial file systems
Spec == Init /\ [][Next]_vars

NextRerun ==
    \/ Next
    \/ Rerun
    \/ Tick

\* up to MaxRuns invocations in a row, on the file system the one before left
SpecRerun == Init /\ [][NextRerun]_vars

(***************************************************************************)
(* SpecParse: readMarkdownFile applied to one file, whose text is either   *)
(*   "template"  "---\nname: X\ndescription: Y\n---\nBODY", or             *)
(*   "lines"     at most MaxLines lines joined by "\n".                    *)
(***************************************************************************)
\* the values X and Y range over
FieldValues ==
    {<<>>, <<"X">>, <<"x", " ", "y">>, <<"a", ":", "b">>, <<" ", "p">>, <<"q", " ">>, <<"-", "-", "-">>}

\* the texts BODY ranges over
BodyValues ==
    {<<>>,
     <<"B">>,
     <<"\n", "B", " ", "\n">>,
     <<"B", "\n", "-", "-", "-", "\n", "n", "a", "m", "e", ":", " ", "Z">>,
     <<" ">>,
     <<"k", ":", " ", "v", "\n", "-", "-", "-">>}

\* the lines a "lines" text is made of
LineValues ==
    {<<"-", "-", "-">>,
     <<"-", "-", "-", " ">>,
     <<"-", "-", "-", "\r">>,
     <<>>,
     <<"a">>,
     <<"k", ":", " ", "v">>,
     <<"k", ":", " ", "w", ":", "x">>,
     <<":", "v">>,
     <<" ", ":", "v">>,
     <<"_", "_", "p", "r", "o", "t", "o", "_", "_", ":", "v">>}

RECURSIVE SeqsUpTo(_, _)
\* the sequences of at most n elements of S
SeqsUpTo(S, n) ==
    IF n = 0 THEN {<<>>}
    ELSE LET shorter == SeqsUpTo(S, n - 1)
         IN shorter \cup {Append(q, x) : q \in shorter, x \in S}

Args ==
    {[kind |-> "template", X |-> x, Y |-> y, BODY |-> b, lines |-> <<>>] :
        x \in FieldValues, y \in FieldValues, b \in BodyValues}
    \cup
    {[kind |-> "lines", X |-> <<>>, Y |-> <<>>, BODY |-> <<>>, lines |-> l] :
        l \in SeqsUpTo(LineValues, MaxLines)}

\* "name: "
NamePrefix ==
    <<"n", "a", "m", "e", ":", " ">>
\* "description: "
DescriptionPrefix ==
    <<"d", "e", "s", "c", "r", "i", "p", "t", "i", "o", "n", ":", " ">>

\* the text an element of Args describes
Text(a) ==
    IF a.kind = "template"
    THEN Join(<<Delimiter, NamePrefix \o a.X, DescriptionPrefix \o a.Y, Delimiter, a.BODY>>,
              <<"\n">>)
    ELSE Join(a.lines, <<"\n">>)

InitParse ==
    /\ arg \in Args
    /\ files = [p \in {instructionsFile} |-> Text(arg)]
    /\ dirs = {}
    /\ unreadable \in {{}, {instructionsFile}}
    /\ today = 0
    /\ Idle
    /\ loaded = Null

\* line 81: readMarkdownFile(this.instructionsFile), on its own
LoadDocument ==
    /\ pc = "idle"
    /\ loaded' = readMarkdownFile(instructionsFile)
    /\ trace' = Append(trace, Call("readFileSync", instructionsFile, CanRead(instructionsFile)))
    /\ console' = console \o ReadError(instructionsFile)
    /\ pc' = "loaded"
    /\ UNCHANGED <<fsVars, today, found, promptFiles, consolidated, idx, success,
                   emitted, atStart, runs, arg>>

SpecParse == InitParse /\ [][LoadDocument]_vars


(***************************************************************************)
(* What the claims are stated with.                                        *)
(***************************************************************************)
Last(q) == q[Len(q)]

\* how many times x occurs in the sequence q
Count(q, x) == Cardinality({k \in 1..Len(q) : q[k] = x})

RECURSIVE Flatten(_)
\* the concatenation of the sequences of q
Flatten(q) == IF Len(q) = 0 THEN <<>> ELSE q[1] \o Flatten(Tail(q))

\* the entries of the prompt directory whose name ends in ".md", as paths
ListedPrompts ==
    IF CanList(promptsDir)
    THEN {PathJoin(promptsDir, name) : name \in {n \in readdirSync(promptsDir) : EndsWith(n, Md)}}
    ELSE {}

\* the listed prompts whose read succeeds
ReadablePrompts == {p \in ListedPrompts : CanRead(p)}

\* a run has returned and main has not yet exited
Returned == pc = "exit"

\* the section the output holds for the prompt at path
SectionOf(path) ==
    LET prompt == ParseMarkdown(files[path])
        name   == Field(prompt.frontmatter, NameKey)
        stem   == SubSeq(Basename(path), 1, Len(Basename(path)) - Len(Md))
    IN PromptBlock(IF name # <<>> THEN name ELSE stem,
                   Field(prompt.frontmatter, DescriptionKey), prompt.body)

\* the output file is the title block, the instructions section if the
\* instructions were read, one section per path of order, and the footer
OutputHolds(order) ==
    /\ outputFile \in DOMAIN files
    /\ files[outputFile] =
         Join(HeaderBlock
              \o InstructionsBlock(readMarkdownFile(instructionsFile))
              \o Flatten([k \in 1..Len(order) |-> SectionOf(order[k])])
              \o FooterBlock(today),
              <<"\n">>)

(***************************************************************************)
(* C1.  After a successful run every readable prompt of the prompt         *)
(* directory (every listed ".md" entry whose read succeeds) is exactly one *)
(* section of the output, whether or not its name is in the priority list: *)
(* the sections of the output file are those of the emitted paths, and     *)
(* every readable prompt is emitted once and nothing else is emitted.      *)
(***************************************************************************)
C1_EveryReadablePromptOnce ==
    (Returned /\ success = "true") =>
        /\ OutputHolds(emitted)
        /\ \A p \in ReadablePrompts : Count(emitted, p) = 1
        /\ \A k \in 1..Len(emitted) : emitted[k] \in ReadablePrompts

\* a successful run that emitted a priority prompt and another prompt and
\* skipped an unreadable one
C1_Witness ==
    /\ Returned
    /\ success = "true"
    /\ \E k \in 1..Len(emitted) : InPromptOrder(Basename(emitted[k]))
    /\ \E k \in 1..Len(emitted) : ~InPromptOrder(Basename(emitted[k]))
    /\ ListedPrompts \ ReadablePrompts # {}

(***************************************************************************)
(* C2.  The prompt sections come in this order: first the prompts named in *)
(* the priority list (clean-code-typescript.md, clean-architecture.md,     *)
(* typescript-wizard.md, feature-development.md, frontend-react-shadcn.md) *)
(* in that order, then every other prompt in ascending order of its file   *)
(* name; {b.md, a.md, clean-architecture.md} gives                         *)
(* [clean-architecture.md, a.md, b.md].                                    *)
(***************************************************************************)
\* the priority list as the claim gives it
PriorityList ==
    <<CleanCodeTypescriptMd, CleanArchitectureMd, TypescriptWizardMd,
      FeatureDevelopmentMd, FrontendReactShadcnMd>>

\* the position of name in the priority list, 0 when it is not in it
PriorityIndex(name) ==
    IF \E k \in 1..Len(PriorityList) : PriorityList[k] = name
    THEN CHOOSE k \in 1..Len(PriorityList) : PriorityList[k] = name
    ELSE 0

\* the claimed order puts the prompt named a before the prompt named b
Before(a, b) ==
    IF PriorityIndex(a) > 0 /\ PriorityIndex(b) > 0 THEN PriorityIndex(a) < PriorityIndex(b)
    ELSE IF PriorityIndex(a) > 0 THEN TRUE
    ELSE IF PriorityIndex(b) > 0 THEN FALSE
    ELSE StrLess(a, b)

InClaimedOrder(order) ==
    \A i, j \in 1..Len(order) : i < j => Before(Basename(order[i]), Basename(order[j]))

C2_PriorityThenLexicographic ==
    /\ InClaimedOrder(emitted)
    /\ (Returned /\ success = "true") => OutputHolds(emitted)
    /\ (Returned /\ success = "true"
        /\ ReadablePrompts = {PathJoin(promptsDir, BMd), PathJoin(promptsDir, AMd),
                              PathJoin(promptsDir, CleanArchitectureMd)})
       => emitted = <<PathJoin(promptsDir, CleanArchitectureMd),
                      PathJoin(promptsDir, AMd), PathJoin(promptsDir, BMd)>>

\* the claim's example has run
C2_Witness ==
    /\ Returned
    /\ success = "true"
    /\ emitted = <<PathJoin(promptsDir, CleanArchitectureMd),
                   PathJoin(promptsDir, AMd), PathJoin(promptsDir, BMd)>>

(***************************************************************************)
(* C3.  As stated: a text made of "---", "name: X", "description: Y",      *)
(* "---" and BODY is loaded with the header fields {name: X,               *)
(* description: Y} and the body BODY trimmed.                              *)
(***************************************************************************)
C3_HeaderFieldsAsWritten ==
    (pc = "loaded" /\ loaded.ok /\ arg.kind = "template") =>
        /\ loaded.frontmatter = (NameKey :> arg.X) @@ (DescriptionKey :> arg.Y)
        /\ loaded.body = Trim(arg.BODY)

(***************************************************************************)
(* C3, amended.  Such a text is loaded with exactly the header fields name *)
(* and description, holding X and Y trimmed of leading and trailing white  *)
(* space, and with the body BODY trimmed; no header line and no delimiter  *)
(* is part of the body.                                                    *)
(***************************************************************************)
C3_HeaderFieldsTrimmed ==
    (pc = "loaded" /\ loaded.ok /\ arg.kind = "template") =>
        /\ loaded.frontmatter = (NameKey :> Trim(arg.X)) @@ (DescriptionKey :> Trim(arg.Y))
        /\ loaded.body = Trim(arg.BODY)

\* loaded: name with a leading space, description with a colon, a body with
\* white space around it
C3_Witness ==
    /\ pc = "loaded"
    /\ loaded.ok
    /\ arg.kind = "template"
    /\ arg.X = <<" ", "p">>
    /\ arg.Y = <<"a", ":", "b">>
    /\ arg.BODY = <<"\n", "B", " ", "\n">>
    /\ loaded.body = <<"B">>

(***************************************************************************)
(* C4.  A text whose first line is not exactly "---" (the empty text, a    *)
(* first line "--- " or "---\r", a "---" only on a later line) is loaded   *)
(* with no header field and with the whole text, trimmed, as its body.     *)
(***************************************************************************)
\* the first line of the text arg describes
FirstLine ==
    IF arg.kind = "template" THEN Delimiter
    ELSE IF Len(arg.lines) = 0 THEN <<>>
    ELSE arg.lines[1]

C4_NoHeaderPassthrough ==
    (pc = "loaded" /\ loaded.ok /\ FirstLine # Delimiter) =>
        /\ DOMAIN loaded.frontmatter = {}
        /\ loaded.body = Trim(Text(arg))

\* loaded: a first line "---" followed by a carriage return, then a header
\* line and a delimiter
C4_Witness ==
    /\ pc = "loaded"
    /\ loaded.ok
    /\ arg.kind = "lines"
    /\ Len(arg.lines) = 4
    /\ arg.lines[1] = <<"-", "-", "-", "\r">>
    /\ arg.lines[2] = <<"k", ":", " ", "v">>
    /\ arg.lines[3] = Delimiter
    /\ loaded.body = Text(arg)

(***************************************************************************)
(* C5.  When the prompt directory does not exist as the run starts, the    *)
(* run reports that the directory was not found, returns failure (exit     *)
(* code 1), reads no document and does not write or alter the output file: *)
(* its only file system call is the failed existence check.                *)
(***************************************************************************)
C5_MissingDirectoryFails ==
    (trace # <<>> /\ ~atStart.promptsDir) =>
        /\ pc \in {"exit", "idle"}
        /\ success = "false"
        /\ trace = <<Call("existsSync", promptsDir, FALSE)>>
        /\ console[1] = Message("Prompts directory not found", promptsDir)
        /\ Found.outputFile = atStart.outputFile
        /\ pc = "idle" => Last(runs).exitCode = 1

\* a run has ended on a file system without the prompt directory, with the
\* instructions file and an output file from before
C5_Witness ==
    /\ pc = "idle"
    /\ runs # <<>>
    /\ ~atStart.promptsDir
    /\ atStart.instructionsFile
    /\ atStart.outputFile = <<StaleOutput>>

(***************************************************************************)
(* C6.  When the instructions file does not exist, or exists and cannot be *)
(* read, the run fails and the output file is not written.                 *)
(***************************************************************************)
C6_InstructionsRequired ==
    (Returned /\ ~CanRead(instructionsFile)) =>
        /\ success = "false"
        /\ Found.outputFile = atStart.outputFile

(***************************************************************************)
(* C7.  When the read of a prompt fails, that prompt alone is left out:    *)
(* the run goes on to the write, every readable prompt is emitted once and *)
(* in its usual place, and the run fails only if the write fails.          *)
(***************************************************************************)
C7_UnreadablePromptOnlyOmitted ==
    (Returned /\ atStart.promptsDir /\ atStart.instructionsFile
     /\ ListedPrompts \ ReadablePrompts # {}) =>
        /\ Last(trace).op = "writeFileSync"
        /\ success = "true" <=> Last(trace).ok
        /\ \A p \in ReadablePrompts : Count(emitted, p) = 1
        /\ \A p \in ListedPrompts \ ReadablePrompts : Count(emitted, p) = 0
        /\ InClaimedOrder(emitted)
        /\ success = "true" => OutputHolds(emitted)

\* a successful run over three prompts: the first of the priority list is
\* unreadable, a later priority prompt and another prompt are emitted
C7_Witness ==
    /\ Returned
    /\ success = "true"
    /\ PathJoin(promptsDir, CleanCodeTypescriptMd) \in ListedPrompts \ ReadablePrompts
    /\ emitted = <<PathJoin(promptsDir, CleanArchitectureMd), PathJoin(promptsDir, AMd)>>

(***************************************************************************)
(* C8.  The run returns success (exit code 0) exactly when the output file *)
(* was written, and failure in each of the three cases: the prompt         *)
(* directory is missing, the instructions file cannot be read, the write   *)
(* of the output file fails.                                               *)
(***************************************************************************)
C8_SuccessIffWritten ==
    Returned =>
        /\ success = "true" <=> Last(trace) = Call("writeFileSync", outputFile, TRUE)
        /\ ~atStart.promptsDir => success = "false"
        /\ ~CanRead(instructionsFile) => success = "false"
        /\ Last(trace) = Call("writeFileSync", outputFile, FALSE) => success = "false"

(***************************************************************************)
(* C9.  Two runs in a row on the same day, with nothing changed in between *)
(* but what the first run wrote, write the same output; the output file is *)
(* not one of the files a run reads.                                       *)
(***************************************************************************)
C9_SameDaySameOutput ==
    /\ outputFile \notin ListedPrompts \cup {instructionsFile}
    /\ \A k \in 1..(Len(runs) - 1) :
          (runs[k].exitCode = 0 /\ runs[k + 1].exitCode = 0 /\ runs[k].date = runs[k + 1].date)
          => runs[k].output = runs[k + 1].output

\* two successful runs on the same day over a directory with prompts, the
\* first of which replaced an older output file
C9_Witness ==
    /\ Len(runs) = 2
    /\ runs[1].exitCode = 0
    /\ runs[2].exitCode = 0
    /\ runs[1].date = runs[2].date
    /\ runs[1].output # <<StaleOutput>>
    /\ ReadablePrompts # {}

(***************************************************************************)
(* C10.  Every output that is written starts with the title block, then    *)
(* the fixed heading, a blank line, the body of the instructions file, a   *)
(* blank line and a separator, before any prompt section.                  *)
(***************************************************************************)
\* text starts with prefix
StartsWith(text, prefix) ==
    Len(prefix) <= Len(text) /\ SubSeq(text, 1, Len(prefix)) = prefix

C10_InstructionsFirst ==
    (Returned /\ success = "true") =>
        StartsWith(files[outputFile],
                   Join(HeaderBlock
                        \o <<CoreHeading, <<>>, ParseMarkdown(files[instructionsFile]).body,
                             <<>>, Delimiter, <<>>>>,
                        <<"\n">>))
(***************************************************************************)
(* SpecSection: a run on a prompt directory that holds one file, whose     *)
(* name is any of SectionNames and whose text is any "template" text or    *)
(* any text of at most MaxSectionLines lines; the instructions file is     *)
(* readable.                                                               *)
(***************************************************************************)
MaxSectionLines == 1

\* "x-y.md"
XYMd ==
    <<"x", "-", "y", ".", "m", "d">>

\* "a.mdx.md"
AMdxMd ==
    <<"a", ".", "m", "d", "x", ".", "m", "d">>

\* the names the one prompt file can have: a name of promptOrder, plain
\* names, a name with a hyphen, a name that holds ".md" twice, and ".md"
SectionNames == {CleanArchitectureMd, AMd, XYMd, AMdxMd, Md}

SectionArgs ==
    {a \in Args : a.kind = "template" \/ Len(a.lines) <= MaxSectionLines}

InitSection ==
    /\ arg \in SectionArgs
    /\ \E name \in SectionNames :
          files = [p \in {PathJoin(promptsDir, name), instructionsFile} |->
                     IF p = instructionsFile THEN InstructionsText ELSE Text(arg)]
    /\ dirs = {promptsDir}
    /\ unreadable = {}
    /\ today = 0
    /\ Idle
    /\ loaded = Null

SpecSection == InitSection /\ [][Next]_vars

\* both passes are over and the one prompt was emitted
SectionPushed == pc = "write" /\ Len(emitted) = 1

\* the strings pushed for the prompts, after the title block and the
\* instructions section
Pushed ==
    Slice(consolidated,
          Len(HeaderBlock) + Len(InstructionsBlock(readMarkdownFile(instructionsFile))))

\* the name of a file without its trailing ".md"
Stem(fileName) == SubSeq(fileName, 1, Len(fileName) - Len(Md))

\* the header fields and the body of the prompt at path
Document(path) == ParseMarkdown(files[path])

(***************************************************************************)
(* C11.  The heading pushed for an emitted prompt is "## " followed by     *)
(* formatTitle of the header field name when that field is present and not *)
(* empty, and otherwise of the file name without its trailing ".md"; in    *)
(* the priority pass and in the remainder pass alike.                      *)
(***************************************************************************)
C11_HeadingFromNameOrStem ==
    SectionPushed =>
        LET name == Field(Document(emitted[1]).frontmatter, NameKey)
        IN Pushed[1] = PromptHeadingPrefix
                       \o formatTitle(IF name # <<>> THEN name
                                      ELSE Stem(Basename(emitted[1])))

(***************************************************************************)
(* SpecTitle: formatTitle applied to one title, any text of at most        *)
(* MaxTitleLen symbols of TitleSymbols or "clean-code-typescript".         *)
(***************************************************************************)
MaxTitleLen == 4

TitleSymbols == {"a", "B", "-", " ", SharpS}

\* "clean-code-typescript"
CleanCodeTypescript == Stem(CleanCodeTypescriptMd)

Titles == SeqsUpTo(TitleSymbols, MaxTitleLen) \cup {CleanCodeTypescript}

InitTitle ==
    /\ arg \in Titles
    /\ files = <<>>
    /\ dirs = {}
    /\ unreadable = {}
    /\ today = 0
    /\ Idle
    /\ loaded = <<>>

\* lines 168-173: formatTitle(title), on its own
FormatTitle ==
    /\ pc = "idle"
    /\ loaded' = formatTitle(arg)
    /\ pc' = "formatted"
    /\ UNCHANGED <<fsVars, today, found, promptFiles, consolidated, idx, success,
                   console, trace, emitted, atStart, runs, arg>>

SpecTitle == InitTitle /\ [][FormatTitle]_vars

(***************************************************************************)
(* C12.  formatTitle returns, for every title, the title in which every    *)
(* hyphen has become one space, every symbol that starts a segment (the    *)
(* first symbol, and each symbol after a hyphen) has become its upper case *)
(* and every other symbol is as it was, in the title's order;              *)
(* "clean-code-typescript" becomes "Clean Code Typescript", "a" becomes    *)
(* "A" and "" stays "".                                                    *)
(***************************************************************************)
\* the symbol at position i of the title starts a segment
StartsSegment(title, i) == title[i] # "-" /\ (i = 1 \/ title[i - 1] = "-")

\* the upper case of one symbol
UpperCaseOf(c) == IF c = SharpS THEN <<"S", "S">> ELSE <<ToUpperCase(c)>>

\* what the symbol at position i of the title becomes
Becomes(title, i) ==
    IF title[i] = "-" THEN <<" ">>
    ELSE IF StartsSegment(title, i) THEN UpperCaseOf(title[i])
    ELSE <<title[i]>>

C12_FormatTitle ==
    pc = "formatted" =>
        /\ loaded = Flatten([i \in 1..Len(arg) |-> Becomes(arg, i)])
        /\ arg = CleanCodeTypescript =>
              loaded = <<"C", "l", "e", "a", "n", " ", "C", "o", "d", "e", " ",
                         "T", "y", "p", "e", "s", "c", "r", "i", "p", "t">>
        /\ arg = <<"a">> => loaded = <<"A">>
        /\ arg = <<>> => loaded = <<>>

\* formatted: "clean-code-typescript"
C12_Witness ==
    /\ pc = "formatted"
    /\ arg = CleanCodeTypescript
    /\ loaded[7] = "C"

(***************************************************************************)
(* C13.  A text whose first line is exactly "---" and that has no later    *)
(* "---" line is loaded with an empty body.                                *)
(***************************************************************************)
\* the text is made of lines, opens a header block and never closes it
HeaderLeftOpen ==
    /\ arg.kind = "lines"
    /\ Len(arg.lines) >= 1
    /\ arg.lines[1] = Delimiter
    /\ \A k \in 2..Len(arg.lines) : arg.lines[k] # Delimiter

C13_OpenHeaderEmptyBody ==
    (pc = "loaded" /\ loaded.ok /\ HeaderLeftOpen) => loaded.body = <<>>

(***************************************************************************)
(* C14.  When the prompts path exists and cannot be listed (it is a        *)
(* regular file), the run fails and makes no write: the output file is as  *)
(* it was.                                                                 *)
(***************************************************************************)
C14_UnlistableDirectoryFails ==
    (Returned /\ atStart.promptsDir /\ ~CanList(promptsDir)) =>
        /\ success = "false"
        /\ \A k \in 1..Len(trace) : trace[k].op # "writeFileSync"
        /\ Found.outputFile = atStart.outputFile

(***************************************************************************)
(* C15.  As stated: the strings pushed for an emitted prompt are the       *)
(* heading, then, only when the header field description is present and    *)
(* not empty, the description between asterisks directly below the         *)
(* heading, then an empty line, the body, an empty line, "---" and an      *)
(* empty line.                                                             *)
(***************************************************************************)
\* the header field description of the emitted prompt, "" when it has none
Description == Field(Document(emitted[1]).frontmatter, DescriptionKey)

\* the subtitle of a prompt whose description is not empty
Subtitle == <<"*">> \o Description \o <<"*">>

\* what follows the heading and the subtitle
SectionRest == <<<<>>, Document(emitted[1]).body, <<>>, Delimiter, <<>>>>

C15_SubtitleDirectlyBelow ==
    SectionPushed =>
        /\ StartsWith(Pushed[1], PromptHeadingPrefix)
        /\ Tail(Pushed) = (IF Description # <<>> THEN <<Subtitle>> ELSE <<>>) \o SectionRest

(***************************************************************************)
(* C15, amended.  The strings pushed for an emitted prompt are the         *)
(* heading, then, only when the header field description is present and    *)
(* not empty, an empty line and the description between asterisks, then an *)
(* empty line, the body, an empty line, "---" and an empty line.           *)
(***************************************************************************)
C15_SectionLines ==
    SectionPushed =>
        /\ StartsWith(Pushed[1], PromptHeadingPrefix)
        /\ Tail(Pushed) = (IF Description # <<>> THEN <<<<>>, Subtitle>> ELSE <<>>)
                          \o SectionRest

\* pushed: a prompt with a description and a body of several lines
C15_Witness ==
    /\ SectionPushed
    /\ Description = <<"x", " ", "y">>
    /\ Document(emitted[1]).body = <<"B", "\n", "-", "-", "-", "\n", "n", "a", "m", "e", ":", " ", "Z">>
    /\ Len(Pushed) = 8

(***************************************************************************)
(* C16.  As stated: in a header block every line with a colon inserts a    *)
(* header field under the trimmed text before its first colon, also when   *)
(* that text is empty or white space, and a line without a colon inserts   *)
(* nothing: the keys of the header fields are those of the block's lines   *)
(* that have a colon.                                                      *)
(***************************************************************************)
\* the text is made of lines and its first line opens a header block
HeaderOpened ==
    /\ arg.kind = "lines"
    /\ Len(arg.lines) >= 1
    /\ arg.lines[1] = Delimiter

\* the lines of the header block: those after the first line and before the
\* next "---" line, or the end of the text
BlockLines ==
    {k \in 2..Len(arg.lines) : \A j \in 2..k : arg.lines[j] # Delimiter}

HasColon(line) == \E i \in 1..Len(line) : line[i] = ":"

\* the position of the first colon of a line that has one
FirstColon(line) ==
    CHOOSE i \in 1..Len(line) : line[i] = ":" /\ \A j \in 1..(i - 1) : line[j] # ":"

BeforeColon(line) == SubSeq(line, 1, FirstColon(line) - 1)

AfterColon(line) == SubSeq(line, FirstColon(line) + 1, Len(line))

C16_EveryColonLineInserted ==
    (pc = "loaded" /\ loaded.ok /\ HeaderOpened) =>
        DOMAIN loaded.frontmatter =
            {Trim(BeforeColon(arg.lines[k])) : k \in {j \in BlockLines : HasColon(arg.lines[j])}}

(***************************************************************************)
(* C16, amended.  In a header block a line inserts a header field, under   *)
(* the trimmed text before its first colon, exactly when it has a colon,   *)
(* the text before its first colon is not empty (white space is enough,    *)
(* and gives the empty key) and the trimmed key is not "__proto__".        *)
(***************************************************************************)
\* the line has a colon and a key that an object made by {} takes
Inserts(line) ==
    /\ HasColon(line)
    /\ BeforeColon(line) # <<>>
    /\ Trim(BeforeColon(line)) # ProtoKey

C16_KeyedLinesInserted ==
    (pc = "loaded" /\ loaded.ok /\ HeaderOpened) =>
        DOMAIN loaded.frontmatter =
            {Trim(BeforeColon(arg.lines[k])) : k \in {j \in BlockLines : Inserts(arg.lines[j])}}

\* loaded: a block with ":v", which inserts nothing, " :v", which inserts
\* the empty key, and "a"
C16_Witness ==
    /\ pc = "loaded"
    /\ loaded.ok
    /\ arg.lines = <<Delimiter, <<":", "v">>, <<" ", ":", "v">>, <<"a">>>>
    /\ DOMAIN loaded.frontmatter = {<<>>}

(***************************************************************************)
(* C17.  A line of a header block that inserts a field, and whose key no   *)
(* other line of the block inserts, is split at its first colon only: the  *)
(* field's key is the trimmed text before it and the field's value is all  *)
(* the text after it, later colons included, trimmed.                      *)
(***************************************************************************)
\* the lines of the block that insert the key of line k
SameKey(k) ==
    {j \in BlockLines : /\ Inserts(arg.lines[j])
                        /\ Trim(BeforeColon(arg.lines[j])) = Trim(BeforeColon(arg.lines[k]))}

C17_SplitAtFirstColon ==
    (pc = "loaded" /\ loaded.ok /\ HeaderOpened) =>
        \A k \in BlockLines :
            (Inserts(arg.lines[k]) /\ SameKey(k) = {k}) =>
                loaded.frontmatter[Trim(BeforeColon(arg.lines[k]))] = Trim(AfterColon(arg.lines[k]))

\* loaded: a block whose one line is "k: w:x"
C17_Witness ==
    /\ pc = "loaded"
    /\ loaded.ok
    /\ arg.lines = <<Delimiter, <<"k", ":", " ", "w", ":", "x">>, Delimiter>>
    /\ loaded.frontmatter = (<<"k">> :> <<"w", ":", "x">>)

(***************************************************************************)
(* C18.  In a text whose first line is "---" and that has a later "---"    *)
(* line, the scan stops at the first such line: every header field comes   *)
(* from a line strictly between the two, and the body is all the text      *)
(* after the closing line, trimmed, later "---" lines and later            *)
(* "key: value" lines included.                                            *)
(***************************************************************************)
\* the lines of the text, up to the start of BODY for a "template" text
HeadLines ==
    IF arg.kind = "template"
    THEN <<Delimiter, NamePrefix \o arg.X, DescriptionPrefix \o arg.Y, Delimiter>>
    ELSE arg.lines

HeaderClosed ==
    /\ Len(HeadLines) >= 2
    /\ HeadLines[1] = Delimiter
    /\ \E k \in 2..Len(HeadLines) : HeadLines[k] = Delimiter

\* the first "---" line after the first line
Close ==
    CHOOSE k \in 2..Len(HeadLines) :
        HeadLines[k] = Delimiter /\ \A j \in 2..(k - 1) : HeadLines[j] # Delimiter

\* the text after the closing line
AfterClose ==
    IF arg.kind = "template" THEN arg.BODY
    ELSE Join(SubSeq(arg.lines, Close + 1, Len(arg.lines)), <<"\n">>)

C18_ScanStopsAtFirstClose ==
    (pc = "loaded" /\ loaded.ok /\ HeaderClosed) =>
        /\ loaded.body = Trim(AfterClose)
        /\ \A key \in DOMAIN loaded.frontmatter :
              \E k \in 2..(Close - 1) :
                  /\ HasColon(HeadLines[k])
                  /\ key = Trim(BeforeColon(HeadLines[k]))
                  /\ loaded.frontmatter[key] = Trim(AfterColon(HeadLines[k]))

\* loaded: "---", "k: v", "---", "k: w:x"
C18_Witness ==
    /\ pc = "loaded"
    /\ loaded.ok
    /\ arg.lines = <<Delimiter, <<"k", ":", " ", "v">>, Delimiter, <<"k", ":", " ", "w", ":", "x">>>>
    /\ loaded.frontmatter = (<<"k">> :> <<"v">>)
    /\ loaded.body = <<"k", ":", " ", "w", ":", "x">>

(***************************************************************************)
(* C19.  As stated: when several lines of a header block have the same     *)
(* key (the trimmed text before the first colon), the header fields hold,  *)
(* under that key, the value of the last of these lines.                   *)
(***************************************************************************)
\* the lines of the block that have a colon and the key of line k
SameKeyWritten(k) ==
    {j \in BlockLines : /\ HasColon(arg.lines[j])
                        /\ Trim(BeforeColon(arg.lines[j])) = Trim(BeforeColon(arg.lines[k]))}

C19_LastLineWins ==
    (pc = "loaded" /\ loaded.ok /\ HeaderOpened) =>
        \A k \in BlockLines :
            (/\ HasColon(arg.lines[k])
             /\ Cardinality(SameKeyWritten(k)) >= 2
             /\ \A j \in SameKeyWritten(k) : j <= k) =>
                /\ Trim(BeforeColon(arg.lines[k])) \in DOMAIN loaded.frontmatter
                /\ loaded.frontmatter[Trim(BeforeColon(arg.lines[k]))]
                       = Trim(AfterColon(arg.lines[k]))

(***************************************************************************)
(* C19, amended.  When several lines of a header block insert the same key *)
(* (lines with a colon, a text before it that is not empty and a trimmed   *)
(* key other than "__proto__"), the header fields hold, under that key,    *)
(* the value of the last of these lines.                                   *)
(***************************************************************************)
C19_LastInsertWins ==
    (pc = "loaded" /\ loaded.ok /\ HeaderOpened) =>
        \A k \in BlockLines :
            (/\ Inserts(arg.lines[k])
             /\ Cardinality(SameKey(k)) >= 2
             /\ \A j \in SameKey(k) : j <= k) =>
                /\ Trim(BeforeColon(arg.lines[k])) \in DOMAIN loaded.frontmatter
                /\ loaded.frontmatter[Trim(BeforeColon(arg.lines[k]))]
                       = Trim(AfterColon(arg.lines[k]))

\* loaded: a block with "k: v" and then "k: w:x"
C19_Witness ==
    /\ pc = "loaded"
    /\ loaded.ok
    /\ arg.lines = <<Delimiter, <<"k", ":", " ", "v">>, <<"k", ":", " ", "w", ":", "x">>, Delimiter>>
    /\ loaded.frontmatter = (<<"k">> :> <<"w", ":", "x">>)

(***************************************************************************)
(* C20.  The listing of a prompt directory holds exactly the paths of the  *)
(* entries whose name ends in ".md", in that case and with nothing after   *)
(* it ("A.MD" and "a.mdx" are left out), each once, in ascending order of  *)
(* the path; the listing run counts and the listing the output is built    *)
(* from are the same.                                                      *)
(***************************************************************************)
\* the name ends in the three symbols ".", "m", "d"
HasMdSuffix(name) ==
    /\ Len(name) >= 3
    /\ name[Len(name) - 2] = "."
    /\ name[Len(name) - 1] = "m"
    /\ name[Len(name)] = "d"

\* createConsolidatedContent has listed a prompt directory
Listed == pc \in {"priority", "remainder", "write"} /\ CanList(promptsDir)

C20_ListingExactSorted ==
    Listed =>
        /\ {promptFiles[k] : k \in 1..Len(promptFiles)}
               = {PathJoin(promptsDir, name) :
                      name \in {n \in readdirSync(promptsDir) : HasMdSuffix(n)}}
        /\ \A i, j \in 1..Len(promptFiles) : i < j => StrLess(promptFiles[i], promptFiles[j])
        /\ found = promptFiles

\* listed: a directory that holds "A.MD", "a.mdx" and "a.md"
C20_Witness ==
    /\ Listed
    /\ readdirSync(promptsDir) = {AUpperMd, AMdx, AMd}
    /\ promptFiles = <<PathJoin(promptsDir, AMd)>>

(***************************************************************************)
(* C21.  As stated: a run that reaches the write lists the prompt          *)
(* directory once, then reads the prompts in the order of the listing      *)
(* (ascending paths), then makes its one write, after every read.          *)
(***************************************************************************)
\* the calls of the current run with the operation op
CallsOf(op) == SelectSeq(trace, LAMBDA c : c.op = op)

\* the paths of the prompt reads of the current run, in order
PromptReads ==
    LET reads == SelectSeq(trace, LAMBDA c : c.op = "readFileSync" /\ c.path # instructionsFile)
    IN [k \in 1..Len(reads) |-> reads[k].path]

\* the run has returned from the write
Wrote == Returned /\ Last(trace).op = "writeFileSync"

C21_OneListingReadsInListingOrder ==
    Wrote =>
        /\ Len(CallsOf("readdirSync")) = 1
        /\ \A i, j \in 1..Len(PromptReads) : i < j => StrLess(PromptReads[i], PromptReads[j])
        /\ Len(CallsOf("writeFileSync")) = 1

(***************************************************************************)
(* C21, amended.  A run that reaches the write makes these calls, in this  *)
(* order: the two existence checks, a listing of the prompt directory, the *)
(* read of the instructions file, a second listing, one read per listed    *)
(* prompt, in the order of emission (the prompts of the priority list in   *)
(* the list's order, then the others in the order of the listing), and     *)
(* then its one write.                                                     *)
(***************************************************************************)
C21_CallSequence ==
    Wrote =>
        /\ Len(trace) = 6 + Len(PromptReads)
        /\ <<trace[1].op, trace[1].path>> = <<"existsSync", promptsDir>>
        /\ <<trace[2].op, trace[2].path>> = <<"existsSync", instructionsFile>>
        /\ <<trace[3].op, trace[3].path>> = <<"readdirSync", promptsDir>>
        /\ <<trace[4].op, trace[4].path>> = <<"readFileSync", instructionsFile>>
        /\ <<trace[5].op, trace[5].path>> = <<"readdirSync", promptsDir>>
        /\ \A k \in 1..Len(PromptReads) :
              <<trace[5 + k].op, trace[5 + k].path>> = <<"readFileSync", PromptReads[k]>>
        /\ {PromptReads[k] : k \in 1..Len(PromptReads)} = ListedPrompts
        /\ Len(PromptReads) = Cardinality(ListedPrompts)
        /\ InClaimedOrder(PromptReads)
        /\ <<Last(trace).op, Last(trace).path>> = <<"writeFileSync", outputFile>>

\* written: clean-code-typescript.md was read before clean-architecture.md
\* and a.md last, the reverse of the listing
C21_Witness ==
    /\ Wrote
    /\ PromptReads = <<PathJoin(promptsDir, CleanCodeTypescriptMd),
                       PathJoin(promptsDir, CleanArchitectureMd),
                       PathJoin(promptsDir, AMd)>>

(***************************************************************************)
(* SpecOrder: a run on a prompt directory that holds any of the files      *)
(* frontend-react-shadcn.md, frontend-design.md, nextjs-app-router.md and  *)
(* a.md, all readable, with a readable instructions file.                  *)
(***************************************************************************)
OrderNames == {FrontendReactShadcnMd, FrontendDesignMd, NextjsAppRouterMd, AMd}

InitOrder ==
    /\ \E entries \in SUBSET OrderNames :
          files = InitialFiles("dir", entries, InstructionsText, FALSE)
    /\ dirs = {promptsDir}
    /\ unreadable = {}
    /\ today = 0
    /\ Idle
    /\ arg = NoArg
    /\ loaded = Null

SpecOrder == InitOrder /\ [][Next]_vars

(***************************************************************************)
(* C22.  As stated: frontend-design.md and nextjs-app-router.md are        *)
(* priority prompts, after frontend-react-shadcn.md: no prompt outside the *)
(* longer list is emitted before a prompt of the longer list.              *)
(***************************************************************************)
\* the longer list
LongerList == PriorityList \o <<FrontendDesignMd, NextjsAppRouterMd>>

C22_LongerListInEffect ==
    \A i, j \in 1..Len(emitted) :
        (i < j /\ Includes(LongerList, Basename(emitted[j])))
        => Includes(LongerList, Basename(emitted[i]))

(***************************************************************************)
(* C22, amended.  The list in effect is the list of five names:            *)
(* frontend-design.md and nextjs-app-router.md are emitted with the other  *)
(* prompts, in ascending order of the file name, after the prompts of the  *)
(* five names and after any other prompt whose name sorts before theirs,   *)
(* such as a.md.                                                           *)
(***************************************************************************)
\* the position of the prompt named name among the emitted, 0 when it is
\* not emitted
EmittedAt(name) ==
    IF \E k \in 1..Len(emitted) : Basename(emitted[k]) = name
    THEN CHOOSE k \in 1..Len(emitted) : Basename(emitted[k]) = name
    ELSE 0

C22_ShortListInEffect ==
    Returned =>
        /\ {Basename(emitted[k]) : k \in 1..Len(emitted)} = readdirSync(promptsDir)
        /\ \A late \in {FrontendDesignMd, NextjsAppRouterMd} :
              EmittedAt(late) > 0 =>
                  /\ EmittedAt(FrontendReactShadcnMd) < EmittedAt(late)
                  /\ EmittedAt(AMd) < EmittedAt(late)
        /\ (EmittedAt(FrontendDesignMd) > 0 /\ EmittedAt(NextjsAppRouterMd) > 0)
              => EmittedAt(FrontendDesignMd) < EmittedAt(NextjsAppRouterMd)
        /\ (EmittedAt(AMd) > 0 /\ EmittedAt(FrontendReactShadcnMd) > 0)
              => EmittedAt(FrontendReactShadcnMd) < EmittedAt(AMd)

\* returned: all four prompts, a.md before the two names of the longer list
C22_Witness ==
    /\ Returned
    /\ emitted = <<PathJoin(promptsDir, FrontendReactShadcnMd), PathJoin(promptsDir, AMd),
                   PathJoin(promptsDir, FrontendDesignMd), PathJoin(promptsDir, NextjsAppRouterMd)>>

(***************************************************************************)
(* C23.  No step of a run changes a directory, the instructions file or a  *)
(* file of the prompt directory, or adds or removes a file other than the  *)
(* output file; and a run on a file system that does not meet a            *)
(* precondition (the prompts path exists, the instructions file exists and *)
(* can be read) leaves the output file as it was.                          *)
(***************************************************************************)
\* files other than the output file are as they were
OnlyOutputChanges ==
    /\ dirs' = dirs
    /\ DOMAIN files' \ {outputFile} = DOMAIN files \ {outputFile}
    /\ \A p \in DOMAIN files \ {outputFile} : files'[p] = files[p]

\* a precondition of the run is not met
PreconditionFails ==
    \/ ~atStart.promptsDir
    \/ ~atStart.instructionsFile
    \/ ~CanRead(instructionsFile)

C23_WritesOnlyOutput ==
    /\ [][OnlyOutputChanges]_vars
    /\ []((Returned /\ PreconditionFails) => Found.outputFile = atStart.outputFile)

(***************************************************************************)
(* SpecPrior: up to MaxRuns runs in a row on a prompt directory of         *)
(* InitOrder; between two runs the output file can be removed or replaced  *)
(* by other content, and the day can change.                               *)
(***************************************************************************)
\* what the output file can hold before a run: "stale" or nothing at all
PriorContents == {StaleOutput, <<>>}

\* between two runs the output file is removed or replaced
ReplaceOutput ==
    /\ pc = "idle"
    /\ runs # <<>>
    /\ Len(runs) < MaxRuns
    /\ \/ /\ outputFile \in DOMAIN files
          /\ files' = [p \in DOMAIN files \ {outputFile} |-> files[p]]
       \/ \E content \in PriorContents :
             /\ Found.outputFile # <<content>>
             /\ files' = WriteFile(outputFile, content)
    /\ UNCHANGED <<dirs, unreadable, today, pc, found, promptFiles, consolidated, idx,
                   success, console, trace, emitted, atStart, runs, parseVars>>

NextPrior ==
    \/ NextRerun
    \/ ReplaceOutput

SpecPrior == InitOrder /\ [][NextPrior]_vars

(***************************************************************************)
(* C24.  What a successful run leaves in the output file does not depend   *)
(* on what the file held, or whether it existed, when the run started: any *)
(* two successful runs on the same day, over the same instructions and     *)
(* prompts, leave the same output file.                                    *)
(***************************************************************************)
C24_PriorOutputIrrelevant ==
    \A j, k \in 1..Len(runs) :
        (runs[j].exitCode = 0 /\ runs[k].exitCode = 0 /\ runs[j].date = runs[k].date)
        => runs[j].output = runs[k].output

\* two successful runs on the same day over a directory with prompts: the
\* first started without an output file, the second with "stale" in it
C24_Witness ==
    /\ pc = "idle"
    /\ Len(runs) = 2
    /\ runs[1].exitCode = 0
    /\ runs[2].exitCode = 0
    /\ runs[1].date = runs[2].date
    /\ atStart.outputFile = <<StaleOutput>>
    /\ ReadablePrompts # {}

(***************************************************************************)
(* SpecRender: the rendering of the priority pass and the rendering of the *)
(* remainder pass, both applied to the one prompt file of InitSection.     *)
(***************************************************************************)
\* lines 106-120 and 129-143 applied to the same file
RenderBoth ==
    /\ pc = "idle"
    /\ \E filePath \in DOMAIN files \ {instructionsFile} :
          LET prompt == readMarkdownFile(filePath)
          IN loaded' = [priority  |-> PrioritySection(Basename(filePath), prompt),
                        remainder |-> RemainderSection(Basename(filePath), prompt)]
    /\ pc' = "rendered"
    /\ UNCHANGED <<fsVars, today, found, promptFiles, consolidated, idx, success,
                   console, trace, emitted, atStart, runs, arg>>

SpecRender == InitSection /\ [][RenderBoth]_vars

(***************************************************************************)
(* C25.  For every file name ending in ".md" and every text, the strings   *)
(* the priority pass pushes for the file are the strings the remainder     *)
(* pass pushes for it.                                                     *)
(***************************************************************************)
C25_PassesRenderAlike ==
    pc = "rendered" => loaded.priority = loaded.remainder

(***************************************************************************)
(* C26.  No line that was scanned as header (the opening "---", a line of  *)
(* the block that inserted a field, the closing "---") is also part of the *)
(* body: the body is made of lines that come after all of them.            *)
(***************************************************************************)
\* the positions of the lines scanned as header
HeaderPositions ==
    {1} \cup {k \in BlockLines : Inserts(arg.lines[k])}
        \cup (IF HeaderClosed THEN {Close} ELSE {})

\* the body is the trimmed text of the lines after position s
BodyStartsAfter(s) ==
    loaded.body = Trim(Join(SubSeq(arg.lines, s + 1, Len(arg.lines)), <<"\n">>))

C26_HeaderLinesNotInBody ==
    (pc = "loaded" /\ loaded.ok /\ HeaderOpened) =>
        \E s \in 1..Len(arg.lines) :
            /\ \A k \in HeaderPositions : k <= s
            /\ BodyStartsAfter(s)

(***************************************************************************)
(* SpecShared: a run on a prompt directory of InitOrder that another       *)
(* process changes while the run executes, by adding or removing a file.   *)
(***************************************************************************)
\* another process adds a file to the prompt directory, or removes one,
\* between two file system calls of the run
OtherProcess ==
    /\ pc \notin {"idle", "exit"}
    /\ \E name \in OrderNames :
          LET path == PathJoin(promptsDir, name)
          IN files' = IF path \in DOMAIN files
                      THEN [p \in DOMAIN files \ {path} |-> files[p]]
                      ELSE [p \in DOMAIN files \cup {path} |->
                               IF p = path THEN TextOf(name) ELSE files[p]]
    /\ UNCHANGED <<dirs, unreadable, today, pc, found, promptFiles, consolidated, idx,
                   success, console, trace, emitted, atStart, runs, parseVars>>

NextShared ==
    \/ Next
    \/ OtherProcess

SpecShared == InitOrder /\ [][NextShared]_vars

(***************************************************************************)
(* C27.  The prompt files a run counts (the listing of line 209) are the   *)
(* prompt files its output is built from (the listing of line 101), also   *)
(* when another process adds or removes files of the prompt directory      *)
(* while the run executes.                                                 *)
(***************************************************************************)
C27_CountedIsBuilt ==
    pc \in {"priority", "remainder", "write"} => found = promptFiles

(***************************************************************************)
(* SpecLive: Spec, with the script taking its next step as long as it has  *)
(* one (a sequential program that nothing suspends).  The fairness is      *)
(* stated on the program position: the script has a next step exactly at   *)
(* the positions of Labels, or before main was started, and every step of  *)
(* Next moves pc or idx (StepsAdvance), so that WF_Position(Scheduled) is   *)
(* WF_vars(Next) on the behaviours of Spec.                                *)
(***************************************************************************)
\* the positions at which a statement of the script is about to execute
Labels ==
    {"checkDir", "checkInstructions", "countPrompts", "readInstructions", "listPrompts",
     "priority", "remainder", "write", "exit"}

\* the script has a step to take
Ready == pc \in Labels \/ (pc = "idle" /\ runs = <<>>)

Position == <<pc, idx>>

\* the script takes its step
Scheduled ==
    /\ Ready
    /\ pc' \in Labels \cup {"idle"}
    /\ idx' \in 0..(Len(promptOrder) + MaxEntries)

SpecLive == Spec /\ WF_Position(Scheduled)

\* every step of the script is a step of Scheduled that moves the position
StepsAdvance == [][<<Scheduled>>_Position]_vars

(***************************************************************************)
(* C28.  On every initial file system (prompts path missing, a file or a   *)
(* directory, instructions file missing, unreadable or readable, prompts   *)
(* readable or not, write succeeding or failing) the run ends and main     *)
(* exits with code 0 or 1; a failed read of a prompt leaves the prompt     *)
(* out, a failed listing gives the empty list and a failed write gives     *)
(* failure.                                                                *)
(***************************************************************************)
\* main has exited
Exited == pc = "idle" /\ Len(runs) = 1 /\ runs[1].exitCode \in {0, 1}

\* every failed call of the trace was turned into its result
ErrorsConverted ==
    /\ \A k \in 1..Len(trace) :
          /\ (trace[k].op = "readFileSync" /\ ~trace[k].ok) => Count(emitted, trace[k].path) = 0
          /\ (trace[k].op = "writeFileSync" /\ ~trace[k].ok) => success = "false"
    /\ (pc \in {"priority", "remainder", "write"} /\ ~CanList(promptsDir)) => promptFiles = <<>>
    /\ Returned => success \in {"true", "false"}

C28_RunTerminates ==
    /\ <>Exited
    /\ []ErrorsConverted

\* exited: the read of a prompt failed and the write failed
C28_Witness ==
    /\ Exited
    /\ runs[1].exitCode = 1
    /\ \E k \in 1..Len(trace) :
          trace[k].op = "readFileSync" /\ trace[k].path # instructionsFile /\ ~trace[k].ok
    /\ Last(trace) = Call("writeFileSync", outputFile, FALSE)

(***************************************************************************)
(* C29.  formatTitle is idempotent and hyphen-free: for every title its    *)
(* result contains no hyphen and formatTitle of the result is the result;  *)
(* the result has one space per hyphen or space of the title, and one      *)
(* symbol per symbol of the title except that a symbol that starts a       *)
(* segment and whose upper case is two symbols gives two.                  *)
(***************************************************************************)
HyphenFree(title) == \A i \in 1..Len(title) : title[i] # "-"

\* the positions of the title whose symbol becomes two symbols
Doubled(title) ==
    {i \in 1..Len(title) : StartsSegment(title, i) /\ Len(UpperCaseOf(title[i])) = 2}

\* the statement with one symbol per symbol of every title
C29_SameLengthIdempotent ==
    pc = "formatted" =>
        /\ HyphenFree(loaded)
        /\ Len(loaded) = Len(arg)
        /\ \A i \in 1..Len(arg) : arg[i] = "-" => loaded[i] = " "
        /\ formatTitle(loaded) = loaded

C29_HyphenFreeIdempotent ==
    pc = "formatted" =>
        /\ HyphenFree(loaded)
        /\ Len(loaded) = Len(arg) + Cardinality(Doubled(arg))
        /\ Count(loaded, " ") = Count(arg, " ") + Count(arg, "-")
        /\ Doubled(arg) = {} => \A i \in 1..Len(arg) : arg[i] = "-" => loaded[i] = " "
        /\ formatTitle(loaded) = loaded

\* formatted: "a-" and sharp s gave "A SS"
C29_Witness ==
    /\ pc = "formatted"
    /\ arg = <<"a", "-", SharpS>>
    /\ loaded = <<"A", " ", "S", "S">>
    /\ formatTitle(loaded) = loaded

=============================================================================
